---------------------------- MODULE Spec2Model ----------------------------
(***************************************************************************)
(* cfn-container-image-provider: the Custom::ContainerImage resource of    *)
(* pkg/resources/container_image/handler.go (the current revision, the     *)
(* first 293 lines of the file).                                           *)
(*                                                                         *)
(* A Go string is a sequence of tokens; a token stands for a run of        *)
(* characters that the parsers of the program never split ("python",       *)
(* "3.9", "sha256:d1") or for one separator (":", "@", "/", " ").          *)
(* fmt.Sprintf is concatenation, the empty string is << >>, a nil error    *)
(* is << >>, a nil pointer is << >> and a non-nil one is << value >>.      *)
(***************************************************************************)
EXTENDS Naturals, Sequences, FiniteSets, TLC

VARIABLES
    pc,            \* where the invocation of Handler stands
    event,         \* cfn.Event of the invocation
    ctxDone,       \* the invocation's context is cancelled
    authenticator, \* *authn.Basic of Handler: << >> or << [Username, Password] >>
    properties,    \* *resourceProperties of create: << >> or << record >>
    descriptor,    \* *remote.Descriptor of create: << >> or << record >>
    calls,         \* the external calls the invocation issued, in order
    ret,           \* what Handler returns: physicalResourceID, data, err
    sourceTags,    \* source registry: the digest each tag points to
    target,        \* target registries: reference string -> digest stored there
    history,       \* completed invocations (observer, lifecycle specification)
    response       \* what ecr.GetAuthorizationToken answered: << >> or << record >>

vars == << pc, event, ctxDone, authenticator, properties, descriptor, calls,
           ret, sourceTags, target, history, response >>

----------------------------------------------------------------------------
(* Strings *)

EmptyString == << >>

NoError == << >>

Str(tok) == << tok >>

\* the positions of token sep in string s
Positions(s, sep) == { i \in 1..Len(s) : s[i] = sep }

Contains(s, sep) == Positions(s, sep) # {}

Max(S) == CHOOSE m \in S : \A k \in S : k <= m

Min(S) == CHOOSE m \in S : \A k \in S : m <= k

\* tokens that hold an upper-case letter
UpperTokens == { "ALL", "All", "Demo", "Python" }

Separators == { ":", "@", "/", " " }

\* tokens of the form sha256:<64 hex digits>
DigestTokens == { "sha256:d1", "sha256:d2", "sha256:c1", "sha256:c2" }

\* tokens that hold a '.'
DottedTokens == { "docker.io", "index.docker.io", ".dkr.ecr.", ".amazonaws.com", "3.9" }

\* tokens of digits only
DigitTokens == { "444093529715" }

\* a token of lower-case letters, digits, '.', '_' and '-' only
IsLowerWord(tok) == tok \notin UpperTokens \cup Separators \cup DigestTokens

\* strings.ToLower on one token
LowerToken(tok) ==
    CASE tok = "ALL" -> "all"
      [] tok = "All" -> "all"
      [] tok = "Demo" -> "demo"
      [] tok = "Python" -> "python"
      [] OTHER -> tok

ToLower(s) == [ i \in 1..Len(s) |-> LowerToken(s[i]) ]

\* strings.TrimSpace
TrimSpace(s) ==
    LET keep == { i \in 1..Len(s) : s[i] # " " }
    IN  IF keep = {} THEN EmptyString ELSE SubSeq(s, Min(keep), Max(keep))


----------------------------------------------------------------------------
(* github.com/docker/distribution/reference, as validate uses it *)

\* a path component of a repository name: [a-z0-9]+ joined by '.', '_', '-'
IsPathComponent(tok) == IsLowerWord(tok)

\* a domain component may hold upper-case letters
IsDomainComponent(tok) == tok \notin Separators \cup DigestTokens

\* a tag: [\w][\w.-]{0,127}
IsTagToken(tok) == tok \notin Separators \cup DigestTokens

\* the name of ReferenceRegexp: [domain '/'] component ('/' component)*
IsReferenceName(s) ==
    /\ Len(s) >= 1
    /\ Len(s) % 2 = 1
    /\ \A i \in 1..Len(s) :
          IF i % 2 = 0 THEN s[i] = "/"
          ELSE IF i = 1 /\ Len(s) > 1 THEN IsDomainComponent(s[i])
          ELSE IsPathComponent(s[i])

\* the last token of s, and s without its last two tokens
Last(s) == s[Len(s)]

DropLastTwo(s) == SubSeq(s, 1, Len(s) - 2)

\* s ends in '@' digest
HasDigestPart(s) == Len(s) >= 3 /\ s[Len(s) - 1] = "@" /\ Last(s) \in DigestTokens

\* s ends in ':' tag
HasTagPart(s) == Len(s) >= 3 /\ s[Len(s) - 1] = ":" /\ IsTagToken(Last(s))

\* the groups of a match of ReferenceRegexp, once the name is known to be one
SubmatchOfName(s, nm, tag, digest) ==
    IF IsReferenceName(nm) THEN << s, nm, tag, digest >> ELSE << >>

\* the tag group: front is s without its digest
SubmatchOfTag(s, front, digest) ==
    SubmatchOfName(s,
                   IF HasTagPart(front) THEN DropLastTwo(front) ELSE front,
                   IF HasTagPart(front) THEN Str(Last(front)) ELSE EmptyString,
                   digest)

\* reference.ReferenceRegexp.FindStringSubmatch: << >> when s does not match,
\* else << s, name, tag, digest >> with "" for a group that took no part
ReferenceSubmatch(s) ==
    SubmatchOfTag(s,
                  IF HasDigestPart(s) THEN DropLastTwo(s) ELSE s,
                  IF HasDigestPart(s) THEN Str(Last(s)) ELSE EmptyString)

\* the reference of a match: it keeps name, tag and digest
ReferenceOfSubmatch(parts) ==
    IF parts = << >>
    THEN [err |-> << "invalid reference format" >>, ref |-> << >>]
    ELSE [err |-> NoError,
          ref |-> << [name |-> parts[2], tag |-> parts[3], digest |-> parts[4]] >>]

\* reference.Parse: [err, ref]
ReferenceParse(s) == ReferenceOfSubmatch(ReferenceSubmatch(s))

\* Reference.String() puts name, tag and digest together again
ReferenceString(r) ==
    r.name
    \o (IF r.tag # EmptyString THEN << ":" >> \o r.tag ELSE EmptyString)
    \o (IF r.digest # EmptyString THEN << "@" >> \o r.digest ELSE EmptyString)

\* familiarizeName: drops the default domain docker.io and, under it, the
\* library/ prefix of an official repository
FamiliarName(nm) ==
    IF Len(nm) >= 3 /\ nm[1] = "docker.io" /\ nm[2] = "/"
    THEN LET path == SubSeq(nm, 3, Len(nm))
         IN  IF Len(path) = 3 /\ path[1] = "library" THEN SubSeq(path, 3, 3) ELSE path
    ELSE nm

\* reference.FamiliarString
FamiliarString(r) ==
    ReferenceString([name |-> FamiliarName(r.name), tag |-> r.tag, digest |-> r.digest])

----------------------------------------------------------------------------
(* github.com/google/go-containerregistry/pkg/name, as the handler uses it *)

DefaultRegistry == << "index.docker.io" >>

\* the zero value of a reference
NilReference ==
    [registry |-> EmptyString, repository |-> EmptyString,
     kind |-> "tag", identifier |-> EmptyString]

ParseError == << "could not parse reference" >>

\* the position of the first and of the last sep in s, 0 if there is none
FirstIndex(s, sep) == IF Contains(s, sep) THEN Min(Positions(s, sep)) ELSE 0

LastIndex(s, sep) == IF Contains(s, sep) THEN Max(Positions(s, sep)) ELSE 0

\* NewRegistry: docker.io and no registry stand for the default registry
RegistryOf(reg) ==
    IF reg = EmptyString \/ reg = << "docker.io" >> THEN DefaultRegistry ELSE reg

\* checkRepository, checkRegistry, and the library/ namespace of RepositoryStr
RepositoryOf(reg, repo) ==
    IF /\ repo # EmptyString
       /\ \A i \in 1..Len(repo) : repo[i] = "/" \/ IsLowerWord(repo[i])
       /\ \A i \in 1..Len(reg) : IsLowerWord(reg[i])
    THEN [err |-> NoError,
          registry |-> RegistryOf(reg),
          repository |-> IF RegistryOf(reg) = DefaultRegistry /\ ~Contains(repo, "/")
                         THEN << "library", "/" >> \o repo ELSE repo]
    ELSE [err |-> ParseError, registry |-> EmptyString, repository |-> EmptyString]

\* the part before the first '/' (at slash) is a registry when it holds '.' or ':'
HasRegistry(s, slash) ==
    slash > 0 /\ \E i \in 1..(slash - 1) : s[i] \in DottedTokens \cup { ":" }

\* name.NewRepository: [err, registry, repository]
RepositoryAt(s, slash) ==
    RepositoryOf(IF HasRegistry(s, slash) THEN SubSeq(s, 1, slash - 1) ELSE EmptyString,
                 IF HasRegistry(s, slash) THEN SubSeq(s, slash + 1, Len(s)) ELSE s)

NewRepository(s) == RepositoryAt(s, FirstIndex(s, "/"))

\* a reference of the repository repo, if that parsed
ReferenceOf(repo, kind, identifier) ==
    IF repo.err = NoError
    THEN [err |-> NoError,
          ref |-> << [registry |-> repo.registry, repository |-> repo.repository,
                      kind |-> kind, identifier |-> identifier] >>]
    ELSE [err |-> ParseError, ref |-> << >>]

\* checkTag, and the default tag
TagOf(base, tag) ==
    IF tag = EmptyString \/ (Len(tag) = 1 /\ IsTagToken(tag[1]))
    THEN ReferenceOf(NewRepository(base), "tag",
                     IF tag = EmptyString THEN << "latest" >> ELSE tag)
    ELSE [err |-> ParseError, ref |-> << >>]

\* the part after the last ':' (at colon) is a tag when it holds no '/'
HasTag(s, colon) == colon > 0 /\ ~Contains(SubSeq(s, colon + 1, Len(s)), "/")

TagAt(s, colon) ==
    TagOf(IF HasTag(s, colon) THEN SubSeq(s, 1, colon - 1) ELSE s,
          IF HasTag(s, colon) THEN SubSeq(s, colon + 1, Len(s)) ELSE EmptyString)

\* name.NewTag: [err, ref]
NewTag(s) == TagAt(s, LastIndex(s, ":"))

\* Repository.Name()
RepositoryName(r) == r.registry \o << "/" >> \o r.repository

\* NewDigest parses the part before '@' as a tag first and keeps its repository
DigestBase(base, asTag) ==
    IF asTag.err = NoError THEN RepositoryName(asTag.ref[1]) ELSE base

\* checkDigest
DigestOf(base, dig) ==
    IF Len(dig) = 1 /\ dig[1] \in DigestTokens
    THEN ReferenceOf(NewRepository(DigestBase(base, NewTag(base))), "digest", dig)
    ELSE [err |-> ParseError, ref |-> << >>]

DigestAt(s, at) ==
    IF Cardinality(Positions(s, "@")) = 1
    THEN DigestOf(SubSeq(s, 1, at - 1), SubSeq(s, at + 1, Len(s)))
    ELSE [err |-> ParseError, ref |-> << >>]

\* name.NewDigest: [err, ref]
NewDigest(s) == DigestAt(s, FirstIndex(s, "@"))

\* a tag reference if s parsed as one, else a digest reference
TagOrDigest(s, asTag) == IF asTag.err = NoError THEN asTag ELSE NewDigest(s)

\* name.ParseReference
ParseReference(s) == TagOrDigest(s, NewTag(s))

\* Reference.String()
RefString(r) ==
    RepositoryName(r) \o (IF r.kind = "tag" THEN << ":" >> ELSE << "@" >>) \o r.identifier

----------------------------------------------------------------------------
(* github.com/google/go-containerregistry/pkg/v1: platforms *)

\* strings.Split: the parts of s between the occurrences of sep
Split(s, sep) ==
    LET P == Positions(s, sep)
        n == Cardinality(P)
        pos(k) == CHOOSE q \in P : Cardinality({ r \in P : r < q }) = k - 1
        start(k) == IF k = 1 THEN 1 ELSE pos(k - 1) + 1
        stop(k) == IF k = n + 1 THEN Len(s) ELSE pos(k) - 1
    IN  [ k \in 1..(n + 1) |-> SubSeq(s, start(k), stop(k)) ]

\* the platform of the parts between '/', more than three are too many
PlatformOfParts(s, parts, osVersion) ==
    IF Len(parts) > 3
    THEN [err |-> << "too many slashes in platform spec: " >> \o s, platform |-> << >>]
    ELSE [err |-> NoError,
          platform |-> << [OS |-> parts[1],
                           Architecture |-> IF Len(parts) > 1 THEN parts[2] ELSE EmptyString,
                           Variant |-> IF Len(parts) > 2 THEN parts[3] ELSE EmptyString,
                           OSVersion |-> osVersion] >>]

PlatformOfVersion(s, byColon) ==
    PlatformOfParts(s, Split(byColon[1], "/"),
                    IF Len(byColon) = 2 THEN byColon[2] ELSE EmptyString)

\* v1.ParsePlatform: [err, platform]
ParsePlatform(s) == PlatformOfVersion(s, Split(TrimSpace(s), ":"))

\* Platform.String()
PlatformString(p) ==
    IF p.OS = EmptyString THEN EmptyString
    ELSE p.OS
         \o (IF p.Architecture # EmptyString THEN << "/" >> \o p.Architecture ELSE EmptyString)
         \o (IF p.Variant # EmptyString THEN << "/" >> \o p.Variant ELSE EmptyString)
         \o (IF p.OSVersion # EmptyString THEN << ":" >> \o p.OSVersion ELSE EmptyString)

----------------------------------------------------------------------------
(* validate *)

\* tokens that do not start with a letter
NoLeadingLetter == DigitTokens \cup { "3.9", ".dkr.ecr.", ".amazonaws.com" }

\* tokens of a single character
SingleCharTokens == { "a" }

\* ecrRepositoryArnPattern matching letters of either case in the repository name
ecrRepositoryArnPatternAnyCase(arn) ==
    LET n == Len(arn)
        repo == SubSeq(arn, 13, n)
    IN  IF /\ n >= 13
           /\ SubSeq(arn, 1, 6) = << "arn", ":", "aws", ":", "ecr", ":" >>
           /\ IsLowerWord(arn[7]) /\ arn[7] \notin DottedTokens
           /\ arn[8] = ":"
           /\ arn[9] \in DigitTokens
           /\ SubSeq(arn, 10, 12) = << ":", "repository", "/" >>
           /\ repo[1] \notin NoLeadingLetter
           /\ (Len(repo) > 1 \/ repo[1] \notin SingleCharTokens)
        THEN << arn, Str(arn[7]), Str(arn[9]), repo >>
        ELSE << >>

\* ecrRepositoryArnPattern.FindStringSubmatch: << >> when arn does not match,
\* else << arn, region, account id, repository name >>
\*   ^arn:aws:ecr:([a-z\d-]+):(\d+):repository/([a-z][a-z\d-_/.]+)$
ecrRepositoryArnPattern(arn) ==
    LET n == Len(arn)
        repo == SubSeq(arn, 13, n)
    IN  IF /\ n >= 13
           /\ SubSeq(arn, 1, 6) = << "arn", ":", "aws", ":", "ecr", ":" >>
           /\ IsLowerWord(arn[7]) /\ arn[7] \notin DottedTokens
           /\ arn[8] = ":"
           /\ arn[9] \in DigitTokens
           /\ SubSeq(arn, 10, 12) = << ":", "repository", "/" >>
           /\ IsLowerWord(repo[1]) /\ repo[1] \notin NoLeadingLetter
           /\ (Len(repo) > 1 \/ repo[1] \notin SingleCharTokens)
           /\ \A i \in 1..Len(repo) : repo[i] = "/" \/ IsLowerWord(repo[i])
        THEN << arn, Str(arn[7]), Str(arn[9]), repo >>
        ELSE << >>

\* event.ResourceProperties[key].(string): [ok, val]
StringProperty(ev, key) ==
    IF key \in DOMAIN ev.ResourceProperties /\ ev.ResourceProperties[key].isString
    THEN [ok |-> TRUE, val |-> ev.ResourceProperties[key].val]
    ELSE [ok |-> FALSE, val |-> EmptyString]

\* TargetReferenceString with the digest taking precedence
TargetReferenceStringDigestFirst(accountID, region, repositoryName, sourceTag, sourceDigest) ==
    IF sourceDigest # EmptyString
    THEN accountID \o << ".dkr.ecr." >> \o region \o << ".amazonaws.com", "/" >>
         \o repositoryName \o << "@" >> \o sourceDigest
    ELSE accountID \o << ".dkr.ecr." >> \o region \o << ".amazonaws.com", "/" >>
         \o repositoryName \o << ":" >> \o sourceTag

\* lines 98-111: the target reference string of a tag and a digest
TargetReferenceString(accountID, region, repositoryName, sourceTag, sourceDigest) ==
    IF sourceTag # EmptyString
    THEN accountID \o << ".dkr.ecr." >> \o region \o << ".amazonaws.com", "/" >>
         \o repositoryName \o << ":" >> \o sourceTag
    ELSE accountID \o << ".dkr.ecr." >> \o region \o << ".amazonaws.com", "/" >>
         \o repositoryName \o << "@" >> \o sourceDigest

\* DefaultTag without the default of lines 73-75
DefaultTagNone(tag, digest) == tag

\* DefaultTag that does not look at the digest
DefaultTagAlways(tag, digest) ==
    IF tag = EmptyString THEN << "latest" >> ELSE tag

\* lines 73-75: the tag that stands in when the reference has neither
DefaultTag(tag, digest) ==
    IF digest = EmptyString /\ tag = EmptyString THEN << "latest" >> ELSE tag

\* DefaultPlatform of another architecture
DefaultPlatformArm64 ==
    [OS |-> << "linux" >>, Architecture |-> << "arm64" >>,
     Variant |-> EmptyString, OSVersion |-> EmptyString]

\* line 131: the platform of a request without Platform
DefaultPlatform ==
    [OS |-> << "linux" >>, Architecture |-> << "amd64" >>,
     Variant |-> EmptyString, OSVersion |-> EmptyString]

\* line 121: Platform selects the whole index
IsAllPlatforms(platform) == TrimSpace(ToLower(platform)) = << "all" >>

Failed(msg) == [err |-> msg, props |-> << >>]

\* validateParsedPlatform that falls back to the default platform
validateParsedPlatformLenient(result, parsed) ==
    IF parsed.err # NoError
    THEN [err |-> NoError, props |-> << [result EXCEPT !.Platform = << DefaultPlatform >>] >>]
    ELSE [err |-> NoError, props |-> << [result EXCEPT !.Platform = parsed.platform] >>]

\* lines 124-128 of validate: an explicit platform
validateParsedPlatform(result, parsed) ==
    IF parsed.err # NoError
    THEN Failed(<< "invalid Platform format, " >> \o parsed.err)
    ELSE [err |-> NoError, props |-> << [result EXCEPT !.Platform = parsed.platform] >>]

\* validatePlatformProperty where line 131 makes a new resourceProperties for
\* the default platform
validatePlatformPropertyFresh(result, platform) ==
    IF platform.ok
    THEN IF IsAllPlatforms(platform.val)
         THEN [err |-> NoError, props |-> << [result EXCEPT !.Platform = << >>] >>]
         ELSE validateParsedPlatform(result, ParsePlatform(platform.val))
    ELSE [err |-> NoError,
          props |-> << [Source |-> NilReference,
                        SourceTag |-> EmptyString,
                        SourceDigest |-> EmptyString,
                        SourceName |-> EmptyString,
                        Platform |-> << DefaultPlatform >>,
                        Target |-> NilReference,
                        Region |-> EmptyString,
                        AccountID |-> EmptyString,
                        RepositoryName |-> EmptyString] >>]

\* lines 120-133 of validate: the platform, then the result
validatePlatformProperty(result, platform) ==
    IF platform.ok
    THEN IF IsAllPlatforms(platform.val)
         THEN [err |-> NoError, props |-> << [result EXCEPT !.Platform = << >>] >>]
         ELSE validateParsedPlatform(result, ParsePlatform(platform.val))
    ELSE [err |-> NoError, props |-> << [result EXCEPT !.Platform = << DefaultPlatform >>] >>]

validatePlatform(ev, result) ==
    validatePlatformProperty(result, StringProperty(ev, "Platform"))

\* lines 113-115 of validate: the target reference
validateTarget(ev, result, targetRef) ==
    IF targetRef.err # NoError THEN Failed(targetRef.err)
    ELSE validatePlatform(ev, [result EXCEPT !.Target = targetRef.ref[1]])

\* lines 89-112 of validate: region, account and repository out of the ARN
validateArnMatches(ev, result, arn, matches) ==
    IF Len(matches) # 4
    THEN Failed(<< "Invalid AWS ECR repository ARN: " >> \o arn)
    ELSE validateTarget(ev,
            [result EXCEPT !.Region = matches[2],
                           !.AccountID = matches[3],
                           !.RepositoryName = matches[4]],
            ParseReference(TargetReferenceString(matches[3], matches[2], matches[4],
                                                 result.SourceTag, result.SourceDigest)))

validateArnProperty(ev, result, arn) ==
    IF ~arn.ok THEN Failed(<< "RepositoryArn is missing or not a string" >>)
    ELSE validateArnMatches(ev, result, arn.val, ecrRepositoryArnPattern(arn.val))

\* lines 88-118 of validate: the repository ARN and the target
validateRepositoryArn(ev, result) ==
    validateArnProperty(ev, result, StringProperty(ev, "RepositoryArn"))

\* lines 83-85 of validate: the source becomes the digest reference
validateDigestSource(ev, result, digestReference, digestSource) ==
    IF digestSource.err # NoError
    THEN Failed(<< "failed to turn source reference into a digest reference " >>
                \o ReferenceString(digestReference) \o << ", " >> \o digestSource.err)
    ELSE validateRepositoryArn(ev, [result EXCEPT !.Source = digestSource.ref[1]])

\* lines 79-82 of validate: name@digest as a reference
validateDigestParsed(ev, result, digestReference) ==
    IF digestReference.err # NoError
    THEN Failed(<< "failed to turn source reference into a digest reference " >>
                \o result.SourceName \o << "@" >> \o result.SourceDigest
                \o << ", " >> \o digestReference.err)
    ELSE validateDigestSource(ev, result, digestReference.ref[1],
                              ParseReference(FamiliarString(digestReference.ref[1])))

\* validateDigestReference that names the source by its tag when it has one
validateDigestReferenceTagFirst(ev, result) ==
    validateDigestParsed(ev, result,
        IF result.SourceTag # EmptyString
        THEN ReferenceParse(result.SourceName \o << ":" >> \o result.SourceTag)
        ELSE ReferenceParse(result.SourceName \o << "@" >> \o result.SourceDigest))

\* lines 77-86 of validate: with a digest, the source is name@digest; the
\* digest reference stands for the plain one from here on
validateDigestReference(ev, result) ==
    validateDigestParsed(ev, result,
        IF result.SourceDigest = EmptyString
        THEN [err |-> NoError,
              ref |-> << [name |-> result.SourceName, tag |-> result.SourceTag,
                          digest |-> EmptyString] >>]
        ELSE ReferenceParse(result.SourceName \o << "@" >> \o result.SourceDigest))

\* lines 59-75 of validate: name, tag and digest out of the reference
validateParts(ev, imageReference, source, parts) ==
    IF Len(parts) = 0
    THEN Failed(<< "reference.ReferenceRegexp failed to match " >>
                \o ReferenceString(imageReference))
    ELSE validateDigestReference(ev,
            [Source |-> source,
             SourceTag |-> DefaultTag(IF Len(parts) > 2 THEN parts[3] ELSE EmptyString,
                                      IF Len(parts) > 3 THEN parts[4] ELSE EmptyString),
             SourceDigest |-> IF Len(parts) > 3 THEN parts[4] ELSE EmptyString,
             SourceName |-> IF Len(parts) > 1 THEN parts[2] ELSE EmptyString,
             Platform |-> << >>,
             Target |-> NilReference,
             Region |-> EmptyString,
             AccountID |-> EmptyString,
             RepositoryName |-> EmptyString])

\* lines 54-57 of validate: the source reference
validateSource(ev, imageReference, source) ==
    IF source.err # NoError THEN Failed(source.err)
    ELSE validateParts(ev, imageReference, source.ref[1],
                       ReferenceSubmatch(ReferenceString(imageReference)))

\* lines 45-48 of validate: the image reference parsed
validateImageReference(ev, ref, imageReference) ==
    IF imageReference.err # NoError
    THEN Failed(ref \o << ": " >> \o imageReference.err)
    ELSE validateSource(ev, imageReference.ref[1],
                        ParseReference(FamiliarString(imageReference.ref[1])))

validateReferenceProperty(ev, ref) ==
    IF ~ref.ok THEN Failed(<< "ImageReference is missing or not a string" >>)
    ELSE validateImageReference(ev, ref.val, ReferenceParse(ref.val))

\* validate that looks at RepositoryArn before ImageReference
validateArnFirst(ev) ==
    IF ~StringProperty(ev, "RepositoryArn").ok
    THEN Failed(<< "RepositoryArn is missing or not a string" >>)
    ELSE IF Len(ecrRepositoryArnPattern(StringProperty(ev, "RepositoryArn").val)) # 4
    THEN Failed(<< "Invalid AWS ECR repository ARN: " >>
                \o StringProperty(ev, "RepositoryArn").val)
    ELSE validateReferenceProperty(ev, StringProperty(ev, "ImageReference"))

\* lines 39-134: validate, [err, props]
validate(ev) == validateReferenceProperty(ev, StringProperty(ev, "ImageReference"))

----------------------------------------------------------------------------
(* The registries: what FetchDescriptor, PushDescriptor and DeleteImage act on *)

LinuxAmd64 == DefaultPlatform

LinuxArm64 == [DefaultPlatform EXCEPT !.Architecture = << "arm64" >>]

\* the one repository of the source registry
SourceRegistry == DefaultRegistry

SourceRepository == << "library", "/", "python" >>

\* what the source registry holds under each digest: sha256:d1 is a
\* multi-architecture index of two images, sha256:d2 a single image
SourceArtifacts ==
    [d \in { "sha256:d1", "sha256:d2" } |->
        IF d = "sha256:d1"
        THEN [isIndex |-> TRUE,
              manifests |-> << [digest |-> << "sha256:c1" >>, platform |-> << LinuxAmd64 >>],
                               [digest |-> << "sha256:c2" >>, platform |-> << LinuxArm64 >>] >>]
        ELSE [isIndex |-> FALSE, manifests |-> << >>]]

SourceTagNames == { "3.9", "latest" }

\* puller.Get on the source registry: [err, descriptor]; the descriptor keeps
\* the digest of the manifest the reference resolves to and the platform option
FetchDescriptor(ref, platform, tags) ==
    LET known == /\ ref.registry = SourceRegistry
                 /\ ref.repository = SourceRepository
                 /\ IF ref.kind = "tag"
                    THEN ref.identifier[1] \in DOMAIN tags
                    ELSE ref.identifier[1] \in DOMAIN SourceArtifacts
        digest == IF ref.kind = "tag" THEN tags[ref.identifier[1]] ELSE ref.identifier[1]
    IN  IF known
        THEN [err |-> NoError,
              descriptor |-> << [Digest |-> Str(digest),
                                 isIndex |-> SourceArtifacts[digest].isIndex,
                                 manifests |-> SourceArtifacts[digest].manifests,
                                 platform |-> platform] >>]
        ELSE [err |-> << "MANIFEST_UNKNOWN" >>, descriptor |-> << >>]

\* matchesPlatform of the remote package: an empty field of the required
\* platform matches anything
MatchesPlatform(given, required) ==
    /\ required.Architecture = EmptyString \/ required.Architecture = given.Architecture
    /\ required.OS = EmptyString \/ required.OS = given.OS
    /\ required.OSVersion = EmptyString \/ required.OSVersion = given.OSVersion
    /\ required.Variant = EmptyString \/ required.Variant = given.Variant

\* the platform remote.Get resolves with when no WithPlatform option is given
defaultPlatform == DefaultPlatform

\* descriptor.Image(): [err, digest], the image of the descriptor's platform
\* out of an index, the image itself otherwise
DescriptorImage(d) ==
    LET required == IF d.platform = << >> THEN defaultPlatform ELSE d.platform[1]
        fits == { i \in 1..Len(d.manifests) :
                    /\ d.manifests[i].platform # << >>
                    /\ MatchesPlatform(d.manifests[i].platform[1], required) }
    IN  IF ~d.isIndex THEN [err |-> NoError, digest |-> d.Digest]
        ELSE IF fits = {}
        THEN [err |-> << "no child with platform " >> \o PlatformString(required)
                      \o << " in index" >>,
              digest |-> EmptyString]
        ELSE [err |-> NoError, digest |-> d.manifests[Min(fits)].digest]

\* the digest stored at reference string ref of the target registries, "" if none
Stored(registry, ref) ==
    IF \E e \in registry : e.ref = ref
    THEN (CHOOSE e \in registry : e.ref = ref).digest
    ELSE EmptyString

\* the registry accepts a manifest under a tag, and under a digest only its own
PushAccepted(ref, digest) == ref.kind = "tag" \/ ref.identifier = digest

\* PushDescriptor that leaves a reference alone once it is taken
PushDescriptorUnlessPresent(registry, ref, digest) ==
    IF \E e \in registry : e.ref = RefString(ref)
    THEN registry
    ELSE registry \cup { [ref |-> RefString(ref), digest |-> digest] }

\* PushDescriptor that keeps the manifest it replaces under a reference of its own
PushDescriptorKeepingReplaced(registry, ref, digest) ==
    { e \in registry : e.ref # RefString(ref) }
        \cup { [ref |-> RefString(ref), digest |-> digest] }
        \cup { [ref |-> e.ref \o << "-replaced" >>, digest |-> e.digest] :
                    e \in { x \in registry : x.ref = RefString(ref) } }

\* the target registries after a push of the manifest digest to ref
PushDescriptor(registry, ref, digest) ==
    { e \in registry : e.ref # RefString(ref) }
        \cup { [ref |-> RefString(ref), digest |-> digest] }

\* DeleteImage that leaves the registry as it is
DeleteImageKept(registry, ref) == registry

\* the target registries after a delete of ref
DeleteImage(registry, ref) == { e \in registry : e.ref # RefString(ref) }

\* the error of a call that observes the context
Cancelled == << "context canceled" >>

\* the outcomes of a call that takes the context: it fails when the context
\* is done, and may fail for its own reasons otherwise
CallErrors(done, failure) == IF done THEN { Cancelled } ELSE { NoError, failure }

----------------------------------------------------------------------------
(* getAuthentication *)

\* what ecr.GetAuthorizationToken may answer: an error, no authorization
\* data, a nil token, a token that is not base64, and tokens that decode to
\* one, two and three parts
AuthorizationResponses ==
    { [err |-> << "AccessDeniedException" >>, AuthorizationData |-> << >>],
      [err |-> NoError, AuthorizationData |-> << >>],
      [err |-> NoError, AuthorizationData |-> << [AuthorizationToken |-> << >>] >>],
      [err |-> NoError, AuthorizationData |->
          << [AuthorizationToken |-> << [base64 |-> FALSE, decoded |-> EmptyString] >>] >>],
      [err |-> NoError, AuthorizationData |->
          << [AuthorizationToken |-> << [base64 |-> TRUE, decoded |-> << "AWS" >>] >>] >>],
      [err |-> NoError, AuthorizationData |->
          << [AuthorizationToken |->
                << [base64 |-> TRUE, decoded |-> << "AWS", ":", "secret" >>] >>] >>],
      [err |-> NoError, AuthorizationData |->
          << [AuthorizationToken |->
                << [base64 |-> TRUE, decoded |-> << "AWS", ":", "se", ":", "cret" >>] >>] >> ] }

\* getAuthentication that takes the first two parts of a token of two or more
getAuthenticationFirstTwo(answer) ==
    LET token == answer.AuthorizationData[1].AuthorizationToken[1]
        parts == Split(token.decoded, ":")
    IN  IF answer.err # NoError THEN [err |-> answer.err, basic |-> << >>]
        ELSE IF \/ Len(answer.AuthorizationData) = 0
                \/ answer.AuthorizationData[1].AuthorizationToken = << >>
        THEN [err |-> << "no authorization data was returned" >>, basic |-> << >>]
        ELSE IF ~token.base64
        THEN [err |-> << "illegal base64 data" >>, basic |-> << >>]
        ELSE IF Len(parts) < 2
        THEN [err |-> << "token seperated by : contains ", ToString(Len(parts)),
                         " elements, not 2" >>,
              basic |-> << >>]
        ELSE [err |-> NoError,
              basic |-> << [Username |-> parts[1], Password |-> parts[2]] >>]

\* lines 232-255: [err, basic]
getAuthentication(answer) ==
    LET token == answer.AuthorizationData[1].AuthorizationToken[1]
        parts == Split(token.decoded, ":")
    IN  IF answer.err # NoError THEN [err |-> answer.err, basic |-> << >>]
        ELSE IF \/ Len(answer.AuthorizationData) = 0
                \/ answer.AuthorizationData[1].AuthorizationToken = << >>
        THEN [err |-> << "no authorization data was returned" >>, basic |-> << >>]
        ELSE IF ~token.base64
        THEN [err |-> << "illegal base64 data" >>, basic |-> << >>]
        ELSE IF Len(parts) # 2
        THEN [err |-> << "token seperated by : contains ", ToString(Len(parts)),
                         " elements, not 2" >>,
              basic |-> << >>]
        ELSE [err |-> NoError,
              basic |-> << [Username |-> parts[1], Password |-> parts[2]] >>]

----------------------------------------------------------------------------
(* Handler, step by step *)

\* the zero value of cfn.Event
NoEvent ==
    [RequestType |-> "", ResourceType |-> "",
     ResourceProperties |-> << >>, PhysicalResourceID |-> EmptyString]

NoResult == [physicalResourceID |-> EmptyString, data |-> << >>, err |-> NoError]

Result(id, data, err) == [physicalResourceID |-> id, data |-> data, err |-> err]

\* createResult without the substitution of lines 280-282
createResultUnchanged(requestType, r) == r

\* createResult with the substitution of lines 280-282 for Update as well
createResultAlways(requestType, r) ==
    IF r.physicalResourceID = EmptyString
    THEN [r EXCEPT !.physicalResourceID = << "create-failed" >>]
    ELSE r

\* createResult where Update leaves the physical resource id to the orchestrator
createResultUpdateKeepsId(requestType, r) ==
    IF requestType = "Create" /\ r.physicalResourceID = EmptyString
    THEN [r EXCEPT !.physicalResourceID = << "create-failed" >>]
    ELSE IF requestType = "Update" THEN [r EXCEPT !.physicalResourceID = EmptyString]
    ELSE r

\* lines 278-285: what Handler returns for the result r of create
createResult(requestType, r) ==
    IF requestType = "Create" /\ r.physicalResourceID = EmptyString
    THEN [r EXCEPT !.physicalResourceID = << "create-failed" >>]
    ELSE r

\* Handler returns r
Return(r) ==
    /\ pc' = "done"
    /\ ret' = r

\* create returns r to Handler, which returns
ReturnFromCreate(r) == Return(createResult(event.RequestType, r))

Call(op, ref, err) == [op |-> op, ref |-> ref, err |-> err]

\* the runtime hands an event to Handler
Accept(e) ==
    /\ pc = "idle"
    /\ pc' = "session"
    /\ event' = e
    /\ UNCHANGED << ctxDone, authenticator, properties, descriptor, calls, ret,
                    sourceTags, target, history, response >>

\* lines 265-270: session.NewSessionWithOptions
NewSession ==
    /\ pc = "session"
    /\ \E err \in { NoError, << "failed to load shared config" >> } :
          IF err # NoError THEN Return(Result(EmptyString, << >>, err))
          ELSE pc' = "auth" /\ UNCHANGED ret
    /\ UNCHANGED << event, ctxDone, authenticator, properties, descriptor, calls,
                    sourceTags, target, history, response >>

\* GetAuthentication that goes on to the dispatch whatever the exchange gave
GetAuthenticationIgnored ==
    /\ pc = "auth"
    /\ \E answer \in AuthorizationResponses :
          LET auth == getAuthentication(answer)
          IN  /\ calls' = Append(calls, Call("GetAuthorizationToken", EmptyString, answer.err))
              /\ response' = << answer >>
              /\ authenticator' = auth.basic
              /\ pc' = "dispatch"
              /\ UNCHANGED ret
    /\ UNCHANGED << event, ctxDone, properties, descriptor, sourceTags, target, history >>

\* lines 272-274: getAuthentication, which takes no context
GetAuthentication ==
    /\ pc = "auth"
    /\ \E answer \in AuthorizationResponses :
          LET auth == getAuthentication(answer)
          IN  /\ calls' = Append(calls, Call("GetAuthorizationToken", EmptyString, answer.err))
              /\ response' = << answer >>
              /\ authenticator' = auth.basic
              /\ IF auth.err # NoError THEN Return(Result(EmptyString, << >>, auth.err))
                 ELSE pc' = "dispatch" /\ UNCHANGED ret
    /\ UNCHANGED << event, ctxDone, properties, descriptor, sourceTags, target, history >>

\* Dispatch without the check of the resource type of line 276
DispatchAnyResource ==
    /\ pc = "dispatch"
    /\ CASE event.RequestType \in { "Create", "Update" } ->
                pc' = "create" /\ UNCHANGED ret
          [] event.RequestType = "Delete" ->
                pc' = "delete" /\ UNCHANGED ret
          [] OTHER ->
                Return(Result(EmptyString, << >>,
                              << "unsupported request type: ", event.RequestType >>))
    /\ UNCHANGED << event, ctxDone, authenticator, properties, descriptor, calls,
                    sourceTags, target, history, response >>

\* lines 276-292: the resource type and the request type
Dispatch ==
    /\ pc = "dispatch"
    /\ IF event.ResourceType = "Custom::ContainerImage"
       THEN CASE event.RequestType \in { "Create", "Update" } ->
                    pc' = "create" /\ UNCHANGED ret
              [] event.RequestType = "Delete" ->
                    pc' = "delete" /\ UNCHANGED ret
              [] OTHER ->
                    Return(Result(EmptyString, << >>,
                                  << "unsupported request type: ", event.RequestType >>))
       ELSE Return(Result(EmptyString, << >>,
                          << "unsupported resource type: ", event.ResourceType >>))
    /\ UNCHANGED << event, ctxDone, authenticator, properties, descriptor, calls,
                    sourceTags, target, history, response >>

\* lines 138-140 of create: the error of validate is returned, or its properties kept
CreateValidated(v) ==
    IF v.err # NoError
    THEN /\ ReturnFromCreate(Result(EmptyString, << >>, v.err))
         /\ UNCHANGED properties
    ELSE /\ properties' = v.props
         /\ pc' = "get"
         /\ UNCHANGED ret

\* lines 136-140 of create: validate
CreateValidate ==
    /\ pc = "create"
    /\ CreateValidated(validate(event))
    /\ UNCHANGED << event, ctxDone, authenticator, descriptor, calls,
                    sourceTags, target, history, response >>

\* CreateGet that asks again when puller.Get failed
CreateGetRetrying ==
    /\ pc = "get"
    /\ \E failure \in CallErrors(ctxDone, << "connection reset" >>) :
          LET p == properties[1]
              fetched == FetchDescriptor(p.Source, p.Platform, sourceTags)
              err == IF failure # NoError THEN failure ELSE fetched.err
          IN  /\ calls' = Append(calls, Call("Get", RefString(p.Source), err))
              /\ IF err # NoError
                 THEN UNCHANGED << pc, ret, descriptor >>
                 ELSE /\ descriptor' = fetched.descriptor
                      /\ pc' = "push"
                      /\ UNCHANGED ret
    /\ UNCHANGED << event, ctxDone, authenticator, properties, sourceTags, target, history, response >>

\* lines 142-167 of create: puller.Get, with the platform if there is one
CreateGet ==
    /\ pc = "get"
    /\ \E failure \in CallErrors(ctxDone, << "connection reset" >>) :
          LET p == properties[1]
              fetched == FetchDescriptor(p.Source, p.Platform, sourceTags)
              err == IF failure # NoError THEN failure ELSE fetched.err
          IN  /\ calls' = Append(calls, Call("Get", RefString(p.Source), err))
              /\ IF err # NoError
                 THEN /\ ReturnFromCreate(Result(EmptyString, << >>,
                            << "failed to get descriptor for repository: " >> \o err))
                      /\ UNCHANGED descriptor
                 ELSE /\ descriptor' = fetched.descriptor
                      /\ pc' = "push"
                      /\ UNCHANGED ret
    /\ UNCHANGED << event, ctxDone, authenticator, properties, sourceTags, target, history, response >>

\* getPlatforms that lists the manifests from the last to the first
getPlatformsReversed(d) ==
    IF d.isIndex
    THEN LET withPlatform == SelectSeq(d.manifests, LAMBDA m : m.platform # << >>)
         IN  [ i \in 1..Len(withPlatform) |->
                 PlatformString(withPlatform[Len(withPlatform) + 1 - i].platform[1]) ]
    ELSE << >>

\* lines 201-214: the platforms of the manifests of an index, none for an image
getPlatforms(d) ==
    IF d.isIndex
    THEN LET withPlatform == SelectSeq(d.manifests, LAMBDA m : m.platform # << >>)
         IN  [ i \in 1..Len(withPlatform) |-> PlatformString(withPlatform[i].platform[1]) ]
    ELSE << >>

\* createSuccess that reads Platforms off the descriptor in every case
createSuccessFromManifest(p, d) ==
    Result(RefString(p.Target),
           [Digest |-> d.Digest,
            ImageReference |-> RefString(p.Target),
            Platforms |-> getPlatforms(d)],
           NoError)

\* createSuccess that returns the source as the ImageReference attribute
createSuccessOfSource(p, d) ==
    Result(RefString(p.Target),
           [Digest |-> d.Digest,
            ImageReference |-> RefString(p.Source),
            Platforms |-> IF p.Platform # << >>
                          THEN << PlatformString(p.Platform[1]) >>
                          ELSE getPlatforms(d)],
           NoError)

\* createSuccess that fails when it finds no platform to report
createSuccessChecked(p, d) ==
    IF p.Platform = << >> /\ getPlatforms(d) = << >>
    THEN Result(EmptyString, << >>, << "no platforms in the descriptor" >>)
    ELSE Result(RefString(p.Target),
                [Digest |-> d.Digest,
                 ImageReference |-> RefString(p.Target),
                 Platforms |-> IF p.Platform # << >>
                               THEN << PlatformString(p.Platform[1]) >>
                               ELSE getPlatforms(d)],
                NoError)

\* lines 185-198 of create: the result of a mirror that went through
createSuccess(p, d) ==
    Result(RefString(p.Target),
           [Digest |-> d.Digest,
            ImageReference |-> RefString(p.Target),
            Platforms |-> IF p.Platform # << >>
                          THEN << PlatformString(p.Platform[1]) >>
                          ELSE getPlatforms(d)],
           NoError)

\* lines 169-173 of create: no platform, the descriptor itself is pushed
CreatePushDescriptor ==
    /\ pc = "push"
    /\ properties[1].Platform = << >>
    /\ \E failure \in CallErrors(ctxDone, << "connection reset" >>) :
          LET p == properties[1]
              d == descriptor[1]
              err == IF failure # NoError THEN failure
                     ELSE IF ~PushAccepted(p.Target, d.Digest) THEN << "DIGEST_INVALID" >>
                     ELSE NoError
          IN  /\ calls' = Append(calls, Call("Push", RefString(p.Target), err))
              /\ IF err # NoError
                 THEN /\ ReturnFromCreate(Result(EmptyString, << >>,
                            << "failed to push descriptor: " >> \o err))
                      /\ UNCHANGED target
                 ELSE /\ target' = PushDescriptor(target, p.Target, d.Digest)
                      /\ ReturnFromCreate(createSuccess(p, d))
    /\ UNCHANGED << event, ctxDone, authenticator, properties, descriptor,
                    sourceTags, history, response >>

\* descriptor.Image() fetches the manifest of the image it picked out of an
\* index, with the context
ChildErrors(d, done) ==
    IF d.isIndex THEN CallErrors(done, << "connection reset" >>) ELSE { NoError }

\* lines 174-183 of create: the image of the platform is resolved and pushed
CreatePushImage ==
    /\ pc = "push"
    /\ properties[1].Platform # << >>
    /\ \E failure \in CallErrors(ctxDone, << "connection reset" >>),
          childFailure \in ChildErrors(descriptor[1], ctxDone) :
          LET p == properties[1]
              d == descriptor[1]
              image == DescriptorImage(d)
              imageErr == IF image.err # NoError THEN image.err ELSE childFailure
              err == IF failure # NoError THEN failure
                     ELSE IF ~PushAccepted(p.Target, image.digest) THEN << "DIGEST_INVALID" >>
                     ELSE NoError
          IN  IF imageErr # NoError
              THEN /\ ReturnFromCreate(Result(EmptyString, << >>,
                         << "failed to get the platform specific image from descriptor: " >>
                         \o imageErr))
                   /\ UNCHANGED << calls, target >>
              ELSE /\ calls' = Append(calls, Call("Push", RefString(p.Target), err))
                   /\ IF err # NoError
                      THEN /\ ReturnFromCreate(Result(EmptyString, << >>,
                                 << "failed to push image: " >> \o err))
                           /\ UNCHANGED target
                      ELSE /\ target' = PushDescriptor(target, p.Target, image.digest)
                           /\ ReturnFromCreate(createSuccess(p, d))
    /\ UNCHANGED << event, ctxDone, authenticator, properties, descriptor,
                    sourceTags, history, response >>

\* lines 216-230: delete never returns an error
Delete ==
    /\ pc = "delete"
    /\ LET imageReference == ParseReference(event.PhysicalResourceID)
       IN  IF imageReference.err = NoError
           THEN \E failure \in CallErrors(ctxDone, << "connection reset" >>) :
                   LET ref == imageReference.ref[1]
                       err == IF failure # NoError THEN failure
                              ELSE IF Stored(target, RefString(ref)) = EmptyString
                              THEN << "MANIFEST_UNKNOWN" >>
                              ELSE NoError
                   IN  /\ calls' = Append(calls, Call("Delete", RefString(ref), err))
                       /\ target' = IF err = NoError THEN DeleteImage(target, ref) ELSE target
           ELSE UNCHANGED << calls, target >>
    /\ Return(Result(EmptyString, << >>, NoError))
    /\ UNCHANGED << event, ctxDone, authenticator, properties, descriptor,
                    sourceTags, history, response >>

\* the caller cancels the context of the invocation
Cancel ==
    /\ pc \notin { "idle", "done" }
    /\ ~ctxDone
    /\ ctxDone' = TRUE
    /\ UNCHANGED << pc, event, authenticator, properties, descriptor, calls, ret,
                    sourceTags, target, history, response >>

\* between invocations the tag t of the source repository is moved
Retag(t) ==
    /\ pc = "idle"
    /\ \E d \in DOMAIN SourceArtifacts :
          /\ sourceTags[t] # d
          /\ sourceTags' = [sourceTags EXCEPT ![t] = d]
    /\ UNCHANGED << pc, event, ctxDone, authenticator, properties, descriptor, calls,
                    ret, target, history, response >>

\* the invocation is over; nothing of it is kept
Forget ==
    /\ pc' = "idle"
    /\ event' = NoEvent
    /\ ctxDone' = FALSE
    /\ authenticator' = << >>
    /\ properties' = << >>
    /\ descriptor' = << >>
    /\ calls' = << >>
    /\ ret' = NoResult
    /\ response' = << >>
    /\ UNCHANGED << sourceTags, target >>

Respond ==
    /\ pc = "done"
    /\ Forget
    /\ UNCHANGED history

----------------------------------------------------------------------------
(* The requests *)

StringValue(v) == [isString |-> TRUE, val |-> v]

\* a property that is present and not a string
NumberValue == [isString |-> FALSE, val |-> EmptyString]

\* the property bag with the given ImageReference, RepositoryArn and Platform,
\* each << >> (absent) or << value >>
Bag(i, a, p) ==
    [k \in (IF i # << >> THEN { "ImageReference" } ELSE {})
           \cup (IF a # << >> THEN { "RepositoryArn" } ELSE {})
           \cup (IF p # << >> THEN { "Platform" } ELSE {})
     |-> IF k = "ImageReference" THEN i[1] ELSE IF k = "RepositoryArn" THEN a[1] ELSE p[1]]

Arn(region, account, repository) ==
    << "arn", ":", "aws", ":", "ecr", ":", region, ":", account, ":", "repository", "/" >>
        \o repository

GoodArn == Arn("eu-central-1", "444093529715", << "demo" >>)

\* the malformed ARN of Test_validate: arn:a:ws:ecr:...
BadArn ==
    << "arn", ":", "a", ":", "ws", ":", "ecr", ":", "eu-central-1", ":", "444093529715",
       ":", "repository", "/", "demo" >>

Python == << "python" >>

ImageReferences ==
    { << >>,
      << NumberValue >>,
      << StringValue(<< "https", ":", "/", "/", "python" >>) >>,
      << StringValue(Python) >>,
      << StringValue(Python \o << ":", "3.9" >>) >>,
      << StringValue(Python \o << "@", "sha256:d1" >>) >>,
      << StringValue(Python \o << ":", "3.9", "@", "sha256:d1" >>) >>,
      << StringValue(Python \o << ":", "3.9", "@", "sha256:d2" >>) >>,
      << StringValue(<< "docker.io", "/", "library", "/" >> \o Python \o << ":", "3.9" >>) >> }

RepositoryArns ==
    { << >>,
      << StringValue(BadArn) >>,
      << StringValue(Arn("eu-central-1", "444093529715", << "Demo" >>)) >>,
      << StringValue(GoodArn) >> }

Platforms ==
    { << >>,
      << StringValue(<< "all" >>) >>,
      << StringValue(<< " ", "ALL", " " >>) >>,
      << StringValue(<< "linux", "/", "amd64" >>) >>,
      << StringValue(<< "linux", "/", "arm64" >>) >>,
      << StringValue(<< "linux", "/", "s390x" >>) >>,
      << StringValue(<< "linux", "/", "arm", "/", "v7", "/", "x" >>) >> }

PropertyBags == { Bag(i, a, p) : i \in ImageReferences, a \in RepositoryArns, p \in Platforms }

TargetHost == << "444093529715", ".dkr.ecr.", "eu-central-1", ".amazonaws.com" >>

\* the physical resource ids a Delete may carry
PhysicalResourceIDs ==
    { EmptyString,
      << "create-failed" >>,
      << "Create", " ", "Failed" >>,
      TargetHost \o << "/", "demo", ":", "3.9" >>,
      TargetHost \o << "/", "demo", ":", "latest" >>,
      TargetHost \o << "/", "demo", "@", "sha256:d1" >> }

Event(requestType, resourceType, bag, id) ==
    [RequestType |-> requestType, ResourceType |-> resourceType,
     ResourceProperties |-> bag, PhysicalResourceID |-> id]

\* the property bags the step-by-step specification draws from
HandlerBags ==
    { Bag(i, a, p) : i \in ImageReferences \ { << NumberValue >> },
                     a \in RepositoryArns \ { << >> },
                     p \in Platforms }

Events ==
    { Event(t, "Custom::ContainerImage", b, EmptyString) :
            t \in { "Create", "Update" }, b \in HandlerBags }
    \cup { Event("Delete", "Custom::ContainerImage", Bag(<< >>, << >>, << >>), id) :
            id \in PhysicalResourceIDs }
    \cup { Event(t, "Custom::ContainerImage", Bag(<< >>, << >>, << >>), EmptyString) :
            t \in { "Read", "" } }
    \cup { Event(t, "AWS::ECR::Repository", Bag(<< >>, << >>, << >>), EmptyString) :
            t \in { "Create", "Delete" } }

Receive == \E e \in Events : Accept(e)

Init ==
    /\ pc = "idle"
    /\ event = NoEvent
    /\ ctxDone = FALSE
    /\ authenticator = << >>
    /\ properties = << >>
    /\ descriptor = << >>
    /\ calls = << >>
    /\ ret = NoResult
    /\ sourceTags = [t \in SourceTagNames |-> IF t = "3.9" THEN "sha256:d1" ELSE "sha256:d2"]
    /\ target = {}
    /\ history = << >>
    /\ response = << >>

Next ==
    \/ Receive
    \/ NewSession
    \/ GetAuthentication
    \/ Dispatch
    \/ CreateValidate
    \/ CreateGet
    \/ CreatePushDescriptor
    \/ CreatePushImage
    \/ Delete
    \/ Cancel
    \/ Respond

Spec == Init /\ [][Next]_vars

----------------------------------------------------------------------------
(* A resource over its life: the invocations that returned no error are    *)
(* kept, the last MaxHistory of them, and tags of the source move between  *)
(* invocations.                                                            *)

MaxHistory == 2

\* the invocation that is returning, as the orchestrator and the registries
\* see it
Invocation ==
    [event |-> event, properties |-> properties, ret |-> ret, calls |-> calls,
     source |-> sourceTags, target |-> target]

Window(h) == IF Len(h) > MaxHistory THEN Tail(h) ELSE h

\* the invocation is over, and kept if it returned no error
RespondRecorded ==
    /\ pc = "done"
    /\ Forget
    /\ history' = IF ret.err = NoError THEN Window(Append(history, Invocation)) ELSE history

TaggedAndPinned(d) == << StringValue(Python \o << ":", "3.9", "@", d >>) >>

\* the requests of the resource demo: Create of python:3.9 pinned to either
\* digest, and to the first for all platforms, Create and Update of
\* python:3.9 not pinned, Create of python:3.9 for linux/amd64, and Delete
\* of what they return
LifecycleEvents ==
    { Event("Create", "Custom::ContainerImage", Bag(i, << StringValue(GoodArn) >>, p),
            EmptyString) :
        i \in { TaggedAndPinned("sha256:d1"), TaggedAndPinned("sha256:d2") },
        p \in { << >> } }
    \cup { Event("Create", "Custom::ContainerImage",
                 Bag(TaggedAndPinned("sha256:d1"), << StringValue(GoodArn) >>,
                     << StringValue(<< "all" >>) >>),
                 EmptyString) }
    \cup { Event(t, "Custom::ContainerImage",
                 Bag(<< StringValue(Python \o << ":", "3.9" >>) >>,
                     << StringValue(GoodArn) >>, << >>),
                 EmptyString) : t \in { "Create", "Update" } }
    \cup { Event("Create", "Custom::ContainerImage",
                 Bag(<< StringValue(Python \o << ":", "3.9" >>) >>,
                     << StringValue(GoodArn) >>,
                     << StringValue(<< "linux", "/", "amd64" >>) >>),
                 EmptyString) }
    \cup { Event("Delete", "Custom::ContainerImage", Bag(<< >>, << >>, << >>),
                 TargetHost \o << "/", "demo", ":", "3.9" >>) }

ReceiveLifecycle == \E e \in LifecycleEvents : Accept(e)

\* the tag the requests of the resource name is the one that moves
MoveTag == Retag("3.9")

NextLifecycle ==
    \/ ReceiveLifecycle
    \/ NewSession
    \/ GetAuthentication
    \/ Dispatch
    \/ CreateValidate
    \/ CreateGet
    \/ CreatePushDescriptor
    \/ CreatePushImage
    \/ Delete
    \/ MoveTag
    \/ RespondRecorded

SpecLifecycle == Init /\ [][NextLifecycle]_vars

----------------------------------------------------------------------------
(* validate on its own, for every property bag *)

ValidateEvents ==
    { Event("Create", "Custom::ContainerImage", b, EmptyString) : b \in PropertyBags }

InitValidate ==
    /\ pc = "create"
    /\ event \in ValidateEvents
    /\ ctxDone = FALSE
    /\ authenticator = << >>
    /\ properties = << >>
    /\ descriptor = << >>
    /\ calls = << >>
    /\ ret = NoResult
    /\ sourceTags = [t \in SourceTagNames |-> IF t = "3.9" THEN "sha256:d1" ELSE "sha256:d2"]
    /\ target = {}
    /\ history = << >>
    /\ response = << >>

NextValidate == CreateValidate

SpecValidate == InitValidate /\ [][NextValidate]_vars

----------------------------------------------------------------------------
(* What the invocation that is returning did *)

ContainerImage == event.ResourceType = "Custom::ContainerImage"

\* Handler is returning from a request for a container image of one of types
Returning(types) == pc = "done" /\ ContainerImage /\ event.RequestType \in types

\* the credential was obtained, so Handler went on to the dispatch of line 276
Dispatched == authenticator # << >>

\* the calls of the invocation to the operations ops
Issued(ops) == { i \in 1..Len(calls) : calls[i].op \in ops }

RegistryCalls == { "Get", "Push", "Delete" }

\* the last call of the invocation was a push that went through
Pushed ==
    /\ Len(calls) > 0
    /\ calls[Len(calls)].op = "Push"
    /\ calls[Len(calls)].err = NoError

\* the request is for another resource, or of a type Handler does not know
Unsupported == ~ContainerImage \/ event.RequestType \notin { "Create", "Update", "Delete" }

CredentialExchange == Call("GetAuthorizationToken", EmptyString, NoError)

Sentinel == << "create-failed" >>

\* the property key of bag is absent or not a string
Missing(bag, key) == key \notin DOMAIN bag \/ ~bag[key].isString

MalformedReferences == { << "https", ":", "/", "/", "python" >> }

MalformedArns == { BadArn, Arn("eu-central-1", "444093529715", << "Demo" >>) }

MalformedPlatforms == { << "linux", "/", "arm", "/", "v7", "/", "x" >> }

\* ImageReference or RepositoryArn is missing or malformed, or Platform is malformed
InvalidProperties(bag) ==
    \/ Missing(bag, "ImageReference")
    \/ bag["ImageReference"].val \in MalformedReferences
    \/ Missing(bag, "RepositoryArn")
    \/ bag["RepositoryArn"].val \in MalformedArns
    \/ (~Missing(bag, "Platform") /\ bag["Platform"].val \in MalformedPlatforms)

\* ImageReference is a string that is a reference
ValidReference(bag) ==
    ~Missing(bag, "ImageReference") /\ bag["ImageReference"].val \notin MalformedReferences

\* RepositoryArn is a string that is not the ARN of a repository
MismatchedArn(bag) ==
    ~Missing(bag, "RepositoryArn") /\ bag["RepositoryArn"].val \in MalformedArns

\* validate ran on a RepositoryArn that is not the ARN of a repository
ArnRejected ==
    /\ Returning({ "Create", "Update" })
    /\ Dispatched
    /\ MismatchedArn(event.ResourceProperties)

InvalidArnError == << "Invalid AWS ECR repository ARN: " >> \o event.ResourceProperties["RepositoryArn"].val

\* the ImageReference of the request
Reference == event.ResourceProperties["ImageReference"].val

\* create has run validate on the request
Validating ==
    /\ ContainerImage
    /\ event.RequestType \in { "Create", "Update" }
    /\ pc \in { "get", "push", "done" }
    /\ Dispatched

\* the tag and the digest written in the reference ref, "" if there is none
SuppliedTag(ref) ==
    IF Contains(ref, ":") THEN << ref[Max(Positions(ref, ":")) + 1] >> ELSE EmptyString

SuppliedDigest(ref) ==
    IF Contains(ref, "@") THEN << ref[Max(Positions(ref, "@")) + 1] >> ELSE EmptyString

\* the name written in the reference ref
SuppliedName(ref) ==
    SubSeq(ref, 1, Min({ Len(ref) + 1 } \cup Positions(ref, ":") \cup Positions(ref, "@")) - 1)

\* the tag of ref, "latest" when ref has neither tag nor digest
ResolvedTag(ref) ==
    IF SuppliedTag(ref) = EmptyString /\ SuppliedDigest(ref) = EmptyString
    THEN << "latest" >>
    ELSE SuppliedTag(ref)

\* the target of the reference ref in the repository of arn, as the
\* documentation of the resource gives it
ExpectedTarget(ref, arn) ==
    << arn[9], ".dkr.ecr.", arn[7], ".amazonaws.com", "/" >> \o SubSeq(arn, 13, Len(arn))
        \o (IF ResolvedTag(ref) # EmptyString
            THEN << ":" >> \o ResolvedTag(ref)
            ELSE << "@" >> \o SuppliedDigest(ref))

\* the invocation kept last
Previous == history[Len(history)]

\* Handler is returning without error from a request of one of types, and the
\* invocation kept last was a request of one of earlier
Follows(earlier, types) ==
    /\ Returning(types)
    /\ ret.err = NoError
    /\ history # << >>
    /\ Previous.event.RequestType \in earlier

\* e1 and e2 name the same repository, name and tag, pinned to two digests
SameTagOtherDigest(e1, e2) ==
    LET r1 == e1.ResourceProperties["ImageReference"].val
        r2 == e2.ResourceProperties["ImageReference"].val
    IN  /\ e1.ResourceProperties["RepositoryArn"] = e2.ResourceProperties["RepositoryArn"]
        /\ SuppliedName(r1) = SuppliedName(r2)
        /\ SuppliedTag(r1) # EmptyString
        /\ SuppliedTag(r1) = SuppliedTag(r2)
        /\ SuppliedDigest(r1) # EmptyString
        /\ SuppliedDigest(r2) # EmptyString
        /\ SuppliedDigest(r1) # SuppliedDigest(r2)

\* the digests of the content the source keeps under digest d: the manifest
\* itself and, for an index, the images in it
ContentOf(d) ==
    { d } \cup { SourceArtifacts[d[1]].manifests[i].digest :
                    i \in 1..Len(SourceArtifacts[d[1]].manifests) }

\* e1 and e2 are the same request for a mirror, e1 without Platform and e2
\* with Platform linux/amd64
SameButPlatform(e1, e2) ==
    /\ e1.RequestType = e2.RequestType
    /\ e1.RequestType \in { "Create", "Update" }
    /\ e1.ResourceType = e2.ResourceType
    /\ e1.PhysicalResourceID = e2.PhysicalResourceID
    /\ "ImageReference" \in DOMAIN e1.ResourceProperties \cap DOMAIN e2.ResourceProperties
    /\ e1.ResourceProperties["ImageReference"] = e2.ResourceProperties["ImageReference"]
    /\ "RepositoryArn" \in DOMAIN e1.ResourceProperties \cap DOMAIN e2.ResourceProperties
    /\ e1.ResourceProperties["RepositoryArn"] = e2.ResourceProperties["RepositoryArn"]
    /\ "Platform" \notin DOMAIN e1.ResourceProperties
    /\ "Platform" \in DOMAIN e2.ResourceProperties
    /\ e2.ResourceProperties["Platform"] = StringValue(<< "linux", "/", "amd64" >>)

\* the request asks for all platforms, in any case and with spaces around
AllRequested ==
    /\ ~Missing(event.ResourceProperties, "Platform")
    /\ event.ResourceProperties["Platform"].val \in { << "all" >>, << " ", "ALL", " " >> }

\* Handler is returning from a mirror that went through
Mirrored == Returning({ "Create", "Update" }) /\ ret.err = NoError

\* the digests under which the source keeps an index
IndexDigests == { << d >> : d \in { k \in DOMAIN SourceArtifacts : SourceArtifacts[k].isIndex } }

\* the platform the request selects when it does not ask for all
SelectedPlatform ==
    IF "Platform" \in DOMAIN event.ResourceProperties
    THEN event.ResourceProperties["Platform"].val
    ELSE << "linux", "/", "amd64" >>

PinnedDigest(e) == SuppliedDigest(e.ResourceProperties["ImageReference"].val)

----------------------------------------------------------------------------
(* The claims *)

\* C1: a Delete invocation of Handler returns no error, whatever its physical
\* resource id and whatever the external calls of the invocation answer.
DeleteReturnsNoError == Returning({ "Delete" }) => ret.err = NoError

\* C2: a Create that fails in validate or in the mirror (fetch, platform
\* resolution, push) returns the physical resource id "create-failed" and
\* the error.
CreateFailureReturnsSentinel ==
    (Returning({ "Create" }) /\ Dispatched /\ (~Pushed \/ ret.err # NoError))
        => (ret.err # NoError /\ ret.physicalResourceID = Sentinel)

\* a Create whose push failed returns the sentinel
CreateFailureSeen ==
    /\ Returning({ "Create" })
    /\ Issued({ "Push" }) # {}
    /\ ~Pushed
    /\ ret.physicalResourceID = Sentinel

\* C3: an Update that fails in validate or in the mirror returns the error
\* and an empty physical resource id; no Update returns "create-failed".
UpdateFailureReturnsNoId ==
    Returning({ "Update" }) =>
        /\ ret.physicalResourceID # Sentinel
        /\ (Dispatched /\ (~Pushed \/ ret.err # NoError))
              => (ret.err # NoError /\ ret.physicalResourceID = EmptyString)

\* an Update whose fetch failed returns no id
UpdateFailureSeen ==
    /\ Returning({ "Update" })
    /\ Issued({ "Get" }) # {}
    /\ descriptor = << >>
    /\ ret.err # NoError
    /\ ret.physicalResourceID = EmptyString

TargetNamesTagBeforeDigest ==
    pc = "get" =>
        RefString(properties[1].Target)
            = ExpectedTarget(event.ResourceProperties["ImageReference"].val,
                             event.ResourceProperties["RepositoryArn"].val)

\* a reference with tag and digest validated, and its target ends in the tag
TagAndDigestSeen ==
    /\ pc = "get"
    /\ properties[1].SourceTag = << "3.9" >>
    /\ properties[1].SourceDigest = << "sha256:d1" >>
    /\ RefString(properties[1].Target) = TargetHost \o << "/", "demo", ":", "3.9" >>

\* C6: a successful Create of name:tag@d1 and then a successful Create of
\* name:tag@d2 into the same repository return the same physical resource
\* id, and the target tag then holds content of d2 and not of d1.
RetaggedCreateOverwrites ==
    (Follows({ "Create" }, { "Create" }) /\ SameTagOtherDigest(Previous.event, event))
        => /\ ret.physicalResourceID = Previous.ret.physicalResourceID
           /\ Stored(target, ret.physicalResourceID) \in ContentOf(PinnedDigest(event))
           /\ Stored(target, ret.physicalResourceID)
                \notin ContentOf(PinnedDigest(Previous.event))

\* python:3.9@sha256:d2 was created after python:3.9@sha256:d1
RetaggedCreateSeen ==
    /\ Follows({ "Create" }, { "Create" })
    /\ PinnedDigest(Previous.event) = << "sha256:d1" >>
    /\ PinnedDigest(event) = << "sha256:d2" >>
    /\ Previous.target = { [ref |-> ret.physicalResourceID, digest |-> << "sha256:c1" >>] }
    /\ target = { [ref |-> ret.physicalResourceID, digest |-> << "sha256:d2" >>] }

\* C7: a Create that follows a Create with the same properties, the source
\* unchanged, returns the same Digest and the same physical resource id, and
\* leaves the target registry as the first left it.
CreateTwiceChangesNothing ==
    (Follows({ "Create" }, { "Create" })
        /\ Previous.event = event
        /\ Previous.source = sourceTags)
        => /\ ret.data.Digest = Previous.ret.data.Digest
           /\ ret.physicalResourceID = Previous.ret.physicalResourceID
           /\ target = Previous.target

\* python:3.9 was created twice while the tag stayed where it was
CreateTwiceSeen ==
    /\ Follows({ "Create" }, { "Create" })
    /\ Previous.event = event
    /\ Previous.source = sourceTags
    /\ SuppliedDigest(event.ResourceProperties["ImageReference"].val) = EmptyString
    /\ target # {}

\* C8: the Digest a successful Create or Update returns is the digest of
\* what the invocation pushed to the target.
DigestIsOfPushedArtifact ==
    (Returning({ "Create", "Update" }) /\ ret.err = NoError)
        => ret.data.Digest = Stored(target, ret.physicalResourceID)

\* C9: a successful Create and a successful Update with the same properties
\* and the same answers of the external calls issue the same calls and
\* return the same physical resource id and the same attributes.
CreateAndUpdateAlike ==
    (Follows({ "Create", "Update" }, { "Create", "Update" })
        /\ Previous.event.RequestType # event.RequestType
        /\ Previous.event.ResourceProperties = event.ResourceProperties
        /\ Previous.source = sourceTags)
        => /\ calls = Previous.calls
           /\ ret = Previous.ret

\* an Update of what was created, the source unchanged
UpdateAfterCreateSeen ==
    /\ Follows({ "Create" }, { "Update" })
    /\ Previous.event.ResourceProperties = event.ResourceProperties
    /\ Previous.source = sourceTags
    /\ Len(calls) = 3

MismatchedArnAlwaysEchoed ==
    ArnRejected
        => /\ ret.err = InvalidArnError
           /\ properties = << >>
           /\ Issued(RegistryCalls) = {}

\* C11, amended: a RepositoryArn that is not the ARN of a repository always
\* makes validation fail, and the request reaches no fetch, push or delete;
\* the error echoes the RepositoryArn whenever the ImageReference is valid,
\* and is the error of the ImageReference otherwise.
MismatchedArnFails ==
    ArnRejected
        => /\ ret.err # NoError
           /\ properties = << >>
           /\ Issued(RegistryCalls) = {}
           /\ ValidReference(event.ResourceProperties) <=> ret.err = InvalidArnError

\* the ARN with an upper-case repository name was echoed
MismatchedArnSeen ==
    /\ ArnRejected
    /\ event.ResourceProperties["RepositoryArn"].val
         = Arn("eu-central-1", "444093529715", << "Demo" >>)
    /\ ret.err = InvalidArnError
    /\ calls = << CredentialExchange >>

\* C12: an ImageReference with neither tag nor digest validates to the tag
\* "latest" and an empty digest, and the physical resource id of a
\* successful Create of it ends in ":latest".
DefaultsToLatest ==
    (/\ Validating
     /\ ValidReference(event.ResourceProperties)
     /\ SuppliedTag(Reference) = EmptyString
     /\ SuppliedDigest(Reference) = EmptyString)
        => /\ ~InvalidProperties(event.ResourceProperties) => properties # << >>
           /\ properties # << >>
                => /\ properties[1].SourceTag = << "latest" >>
                   /\ properties[1].SourceDigest = EmptyString
           /\ (Returning({ "Create" }) /\ ret.err = NoError)
                => /\ Len(ret.physicalResourceID) > 2
                   /\ Last(ret.physicalResourceID) = "latest"
                   /\ ret.physicalResourceID[Len(ret.physicalResourceID) - 1] = ":"

\* python was created under the tag latest
DefaultsToLatestSeen ==
    /\ Returning({ "Create" })
    /\ ret.err = NoError
    /\ Reference = Python
    /\ ret.physicalResourceID = TargetHost \o << "/", "demo", ":", "latest" >>

\* C13: validate keeps the components of the reference: of name:tag the tag
\* and an empty digest, of name@digest the digest and an empty tag.
KeepsSuppliedComponents ==
    pc = "get"
        => /\ (SuppliedTag(Reference) # EmptyString /\ SuppliedDigest(Reference) = EmptyString)
                => /\ properties[1].SourceTag = SuppliedTag(Reference)
                   /\ properties[1].SourceDigest = EmptyString
           /\ (SuppliedDigest(Reference) # EmptyString /\ SuppliedTag(Reference) = EmptyString)
                => /\ properties[1].SourceDigest = SuppliedDigest(Reference)
                   /\ properties[1].SourceTag = EmptyString

\* python@sha256:d1 validated without a tag
DigestOnlySeen ==
    /\ pc = "get"
    /\ Reference = Python \o << "@", "sha256:d1" >>
    /\ properties[1].SourceDigest = << "sha256:d1" >>
    /\ properties[1].SourceTag = EmptyString

\* C14: after a validation that succeeded, the source tag or the source
\* digest is not empty.
TagOrDigestResolved ==
    properties # << >>
        => (properties[1].SourceTag # EmptyString \/ properties[1].SourceDigest # EmptyString)

\* a reference without tag and digest validated, with the tag it was given
TagResolvedSeen ==
    /\ pc = "get"
    /\ SuppliedTag(Reference) = EmptyString
    /\ properties[1].SourceTag # EmptyString
    /\ properties[1].SourceDigest = EmptyString

\* C15: of a reference with tag and digest validate keeps both, the source
\* that is fetched is name@digest, and what is fetched is the content of
\* that digest, wherever the tag of the source points.
DigestPinsContent ==
    (/\ ContainerImage
     /\ pc \in { "get", "push" }
     /\ SuppliedTag(Reference) # EmptyString
     /\ SuppliedDigest(Reference) # EmptyString)
        => /\ properties[1].SourceTag = SuppliedTag(Reference)
           /\ properties[1].SourceDigest = SuppliedDigest(Reference)
           /\ properties[1].Source.kind = "digest"
           /\ properties[1].Source.identifier = SuppliedDigest(Reference)
           /\ pc = "push" => descriptor[1].Digest = SuppliedDigest(Reference)

\* python:3.9@sha256:d2 was fetched while the tag 3.9 was at another digest
PinnedWhileTagElsewhereSeen ==
    /\ pc = "push"
    /\ Reference = Python \o << ":", "3.9", "@", "sha256:d2" >>
    /\ descriptor[1].Digest = << "sha256:d2" >>
    /\ sourceTags["3.9"] = "sha256:d1"

AllCopiesTheIndex ==
    (Mirrored /\ AllRequested /\ descriptor[1].isIndex)
        => /\ properties[1].Platform = << >>
           /\ descriptor[1].platform = << >>
           /\ Stored(target, ret.physicalResourceID) = descriptor[1].Digest
           /\ ret.data.Digest = descriptor[1].Digest
           /\ ret.data.Platforms # << >>
           /\ Len(ret.data.Platforms) = Len(descriptor[1].manifests)
           /\ \A i \in 1..Len(descriptor[1].manifests) :
                ret.data.Platforms[i] = PlatformString(descriptor[1].manifests[i].platform[1])

\* the index sha256:d1 was mirrored with Platform " ALL "
AllOfIndexSeen ==
    /\ Mirrored
    /\ AllRequested
    /\ event.ResourceProperties["Platform"].val = << " ", "ALL", " " >>
    /\ descriptor[1].Digest = << "sha256:d1" >>
    /\ Stored(target, ret.physicalResourceID) = << "sha256:d1" >>
    /\ ret.data.Platforms = << << "linux", "/", "amd64" >>, << "linux", "/", "arm64" >> >>

\* C18: with an explicit or no Platform, or a source that is a single image
\* (also with Platform "all"), one image and no index is pushed and
\* Platforms has one element, the platform that was resolved.
OneImageOnePlatform ==
    (Mirrored /\ (~AllRequested \/ ~descriptor[1].isIndex))
        => /\ Pushed
           /\ Stored(target, ret.physicalResourceID) \notin IndexDigests
           /\ Len(ret.data.Platforms) = 1
           /\ ~AllRequested => ret.data.Platforms = << SelectedPlatform >>

\* C19, as claimed: Platforms is empty unless all platforms were asked for
\* and the source is an index.
PlatformsEmptyUnlessAllOfIndex ==
    (Mirrored /\ ~(AllRequested /\ descriptor[1].isIndex))
        => ret.data.Platforms = << >>

\* C19, amended: Platforms is empty only if all platforms were asked for;
\* with an explicit or no Platform it holds the one platform selected,
\* linux/amd64 with no Platform, whatever the source is.
PlatformsEmptyOnlyForAll ==
    Mirrored
        => /\ ret.data.Platforms = << >> => AllRequested
           /\ ~AllRequested => ret.data.Platforms = << SelectedPlatform >>

\* the single image sha256:d2 was mirrored for linux/arm64
SelectedOfImageSeen ==
    /\ Mirrored
    /\ ~AllRequested
    /\ SelectedPlatform = << "linux", "/", "arm64" >>
    /\ descriptor[1].Digest = << "sha256:d2" >>
    /\ ret.data.Platforms = << << "linux", "/", "arm64" >> >>

\* C20: a successful Create or Update returns as physical resource id and
\* as ImageReference the reference it pushed to, which is the reference of
\* the repository of RepositoryArn with the tag or digest of the source, and
\* the attributes Digest, ImageReference and Platforms and no other.
IdIsTargetPushedTo ==
    Mirrored
        => /\ DOMAIN ret.data = { "Digest", "ImageReference", "Platforms" }
           /\ ret.physicalResourceID = ret.data.ImageReference
           /\ Pushed
           /\ calls[Len(calls)].ref = ret.physicalResourceID
           /\ ret.physicalResourceID = RefString(properties[1].Target)
           /\ ret.physicalResourceID
                = ExpectedTarget(Reference, event.ResourceProperties["RepositoryArn"].val)
           /\ Stored(target, ret.physicalResourceID) # EmptyString

\* an Update of python@sha256:d1 returned the reference by digest
UpdateByDigestSeen ==
    /\ Mirrored
    /\ event.RequestType = "Update"
    /\ Reference = Python \o << "@", "sha256:d1" >>
    /\ ret.data.ImageReference = TargetHost \o << "/", "demo", "@", "sha256:d1" >>
    /\ ret.physicalResourceID = ret.data.ImageReference

\* C21: the physical resource id a Create returns is the target reference
\* when it succeeded and "create-failed" when it failed, and nothing else.
CreateIdIsTargetOrSentinel ==
    Returning({ "Create" })
        => IF ret.err = NoError
           THEN ret.physicalResourceID
                    = ExpectedTarget(Reference, event.ResourceProperties["RepositoryArn"].val)
           ELSE ret.physicalResourceID = Sentinel

\* C22: a Delete that carries the physical resource id the Create before it
\* returned, and gets as far as delete, issues one delete, of the reference
\* that Create pushed to, and when the delete goes through the target holds
\* nothing under that reference.
DeleteRemovesWhatCreatePushed ==
    (/\ Follows({ "Create" }, { "Delete" })
     /\ event.PhysicalResourceID = Previous.ret.physicalResourceID)
        => /\ Cardinality(Issued({ "Delete" })) = 1
           /\ calls[Len(calls)].op = "Delete"
           /\ calls[Len(calls)].ref = Previous.calls[Len(Previous.calls)].ref
           /\ calls[Len(calls)].ref = Previous.ret.physicalResourceID
           /\ calls[Len(calls)].err = NoError
                => Stored(target, Previous.ret.physicalResourceID) = EmptyString

\* the image a Create had pushed was deleted
DeleteAfterCreateSeen ==
    /\ Follows({ "Create" }, { "Delete" })
    /\ event.PhysicalResourceID = Previous.ret.physicalResourceID
    /\ Stored(Previous.target, event.PhysicalResourceID) # EmptyString
    /\ calls[Len(calls)].err = NoError
    /\ target = {}

\* the error err is the error of a cancelled context, wrapped or not
IsCancelled(err) == err # NoError /\ Last(err) = Last(Cancelled)

\* C23: a network call that is issued once the context of the invocation is
\* done (credential exchange, fetch, push or delete) fails with the error of
\* the cancelled context, and the invocation returns that error, whatever
\* the request type.
CancellationObserved ==
    [][(ctxDone /\ Len(calls') > Len(calls))
            => /\ calls'[Len(calls')].err = Cancelled
               /\ pc' = "done"
               /\ IsCancelled(ret'.err)]_vars

\* the credential exchange was answered with a token that decodes
Decoded ==
    /\ response # << >>
    /\ response[1].err = NoError
    /\ Len(response[1].AuthorizationData) > 0
    /\ response[1].AuthorizationData[1].AuthorizationToken # << >>
    /\ response[1].AuthorizationData[1].AuthorizationToken[1].base64

\* the decoded token, and the ':' in it
DecodedToken == response[1].AuthorizationData[1].AuthorizationToken[1].decoded

Colons == Positions(DecodedToken, ":")

\* C24: the credential exchange gives a credential only for a token with one
\* ':', the user name before it and the password after it; a token with no
\* or with several ':' is rejected with an error, gives no credential and
\* ends the invocation.
TwoPartsOrRejected ==
    /\ authenticator # << >> => (Decoded /\ Cardinality(Colons) = 1)
    /\ (Decoded /\ Cardinality(Colons) = 1)
            => authenticator
                 = << [Username |-> SubSeq(DecodedToken, 1, Min(Colons) - 1),
                       Password |-> SubSeq(DecodedToken, Min(Colons) + 1,
                                           Len(DecodedToken))] >>
    /\ (Decoded /\ Cardinality(Colons) # 1)
            => /\ authenticator = << >>
               /\ pc = "done"
               /\ ret.err = << "token seperated by : contains ",
                               ToString(Cardinality(Colons) + 1), " elements, not 2" >>
               /\ Issued(RegistryCalls) = {}

\* a token whose password holds a ':' was rejected
ThreePartsRejectedSeen ==
    /\ Decoded
    /\ DecodedToken = << "AWS", ":", "se", ":", "cret" >>
    /\ authenticator = << >>
    /\ pc = "done"
    /\ ret.err # NoError

\* the operations of the calls of the invocation, in order
Operations == [ i \in 1..Len(calls) |-> calls[i].op ]

\* err ends in the error cause
Wraps(err, cause) ==
    /\ Len(err) >= Len(cause)
    /\ SubSeq(err, Len(err) - Len(cause) + 1, Len(err)) = cause

\* C25: the calls of a Create or Update are the credential exchange, then
\* the fetch, then the push, each at most once; a call that failed is the
\* last one, so a push follows only a fetch that went through, and a fetch
\* or push that failed ends the invocation with its error.
CallsInOrderOnce ==
    (ContainerImage /\ event.RequestType \in { "Create", "Update" })
        => /\ Operations
                = SubSeq(<< "GetAuthorizationToken", "Get", "Push" >>, 1, Len(calls))
           /\ \A i \in 1..Len(calls) : calls[i].err # NoError => i = Len(calls)
           /\ (Len(calls) > 1 /\ calls[Len(calls)].err # NoError)
                => /\ pc = "done"
                   /\ Wraps(ret.err, calls[Len(calls)].err)

\* a Create went as far as a push that failed
PushFailedSeen ==
    /\ Returning({ "Create" })
    /\ Operations = << "GetAuthorizationToken", "Get", "Push" >>
    /\ calls[3].err = << "connection reset" >>
    /\ ret.err = << "failed to push descriptor: ", "connection reset" >>

\* the calls of the invocation to ecr.GetAuthorizationToken
Exchanges == Issued({ "GetAuthorizationToken" })

\* C26: an invocation holds no credential until it has exchanged one, which
\* it does once, as its first call and before the dispatch; nothing of the
\* exchange is left when the invocation is over; and when the exchange fails
\* Handler returns its error and an empty physical resource id, and no
\* fetch, push or delete is issued.
OwnCredentialOnce ==
    /\ Cardinality(Exchanges) <= 1
    /\ pc \in { "idle", "session", "auth" }
            => (authenticator = << >> /\ response = << >> /\ calls = << >>)
    /\ pc \in { "dispatch", "create", "get", "push", "delete" }
            => (authenticator # << >> /\ Exchanges = { 1 })
    /\ Issued(RegistryCalls) # {} => (authenticator # << >> /\ Exchanges = { 1 })
    /\ (response # << >> /\ authenticator = << >>)
            => /\ pc = "done"
               /\ ret.err # NoError
               /\ response[1].err # NoError => ret.err = response[1].err
               /\ ret.physicalResourceID = EmptyString
               /\ ret.data = << >>
               /\ Issued(RegistryCalls) = {}

\* a Create whose credential exchange was denied
ExchangeDeniedSeen ==
    /\ Returning({ "Create" })
    /\ response # << >>
    /\ response[1].err = << "AccessDeniedException" >>
    /\ ret = Result(EmptyString, << >>, << "AccessDeniedException" >>)
    /\ calls = << Call("GetAuthorizationToken", EmptyString, << "AccessDeniedException" >>) >>

\* err begins with start
BeginsWith(err, start) ==
    /\ Len(err) >= Len(start)
    /\ SubSeq(err, 1, Len(start)) = start

\* C27: validate fails for invalid properties only, with no properties and
\* the error of the first check that fails, ImageReference before
\* RepositoryArn before Platform: the error of an ImageReference that is
\* missing or malformed whatever the other two are, and the error of the
\* RepositoryArn whatever Platform is.
FirstFailingCheckReported ==
    pc = "done"
        => /\ properties = << >>
           /\ ret.err # NoError
           /\ InvalidProperties(event.ResourceProperties)
           /\ Missing(event.ResourceProperties, "ImageReference")
                => ret.err = << "ImageReference is missing or not a string" >>
           /\ (~Missing(event.ResourceProperties, "ImageReference")
                    /\ ~ValidReference(event.ResourceProperties))
                => BeginsWith(ret.err, Reference \o << ": " >>)
           /\ (ValidReference(event.ResourceProperties)
                    /\ Missing(event.ResourceProperties, "RepositoryArn"))
                => ret.err = << "RepositoryArn is missing or not a string" >>
           /\ (ValidReference(event.ResourceProperties)
                    /\ MismatchedArn(event.ResourceProperties))
                => ret.err = InvalidArnError
           /\ (ValidReference(event.ResourceProperties)
                    /\ ~Missing(event.ResourceProperties, "RepositoryArn")
                    /\ ~MismatchedArn(event.ResourceProperties))
                => BeginsWith(ret.err, << "invalid Platform format, " >>)

\* all three properties were invalid, and the error is the ImageReference's
AllInvalidSeen ==
    /\ pc = "done"
    /\ ~Missing(event.ResourceProperties, "ImageReference")
    /\ ~ValidReference(event.ResourceProperties)
    /\ MismatchedArn(event.ResourceProperties)
    /\ ~Missing(event.ResourceProperties, "Platform")
    /\ event.ResourceProperties["Platform"].val \in MalformedPlatforms
    /\ BeginsWith(ret.err, Reference \o << ": " >>)
    /\ properties = << >>

\* the pushes of the invocation that went through
Pushes == { i \in Issued({ "Push" }) : calls[i].err = NoError }

\* C28: a Create or Update that returns an error has pushed nothing, and one
\* whose push went through returns, without error, the reference it pushed
\* to as the physical resource id.
NoUntrackedPush ==
    (ContainerImage /\ event.RequestType \in { "Create", "Update" })
        => /\ (pc = "done" /\ ret.err # NoError) => Pushes = {}
           /\ \A i \in Pushes :
                /\ pc = "done"
                /\ ret.err = NoError
                /\ ret.physicalResourceID = calls[i].ref
                /\ Stored(target, calls[i].ref) # EmptyString

\* an Update pushed the single image python:latest for all platforms
PushTrackedSeen ==
    /\ Returning({ "Update" })
    /\ AllRequested
    /\ Pushes = { 3 }
    /\ ret.physicalResourceID = TargetHost \o << "/", "demo", ":", "latest" >>
    /\ Stored(target, ret.physicalResourceID) = << "sha256:d2" >>

\* C29: a Delete whose physical resource id is "create-failed" issues no
\* delete to any registry.
SentinelDeletesNothing ==
    (Returning({ "Delete" }) /\ event.PhysicalResourceID = Sentinel)
        => Issued({ "Delete" }) = {}

\* C30: after a Create of one resource and a Create of another, a Delete of
\* the first leaves the image at the physical resource id of the second,
\* also when the two ids are the same.
OtherResourceKeepsImage ==
    (/\ Follows({ "Create" }, { "Delete" })
     /\ Len(history) > 1
     /\ history[Len(history) - 1].event.RequestType = "Create"
     /\ history[Len(history) - 1].ret.physicalResourceID = event.PhysicalResourceID)
        => Stored(target, Previous.ret.physicalResourceID) # EmptyString

============================================================================
